---- MODULE Spec2Model ----
(***************************************************************************)
(* MultiMap<K, V> of src/lib.rs: a wrapper around HashMap<K, Vec<V>>.      *)
(* The container's state is the field `inner`.  Every public operation is  *)
(* one operator (read-only, &self) or one action (&mut self); what a       *)
(* mutating call returned (or the panic it raised) is recorded in `last`.  *)
(***************************************************************************)
EXTENDS Integers, Sequences, FiniteSets, TLC

\* ---------------------------------------------------------------- bounds
MaxKey == 2
MaxVal == 2
\* most values the container holds at once, over all keys
MaxTotal == 3

\* largest capacity asked of with_capacity
MaxReserve == 2

Keys   == 1..MaxKey
Values == 1..MaxVal

VARIABLES
    inner,    \* MultiMap.inner : present key -> its Vec<V>
    last,     \* the most recent mutating call: [op, key, val, ret], and for clear
              \*        the number of values the container had
    hist,     \* ghost: per key, the values inserted since the key was last absent,
              \*        kept while no caller has stored through a mutable reference
    written   \* ghost: keys whose list a caller has stored into since the key was created

vars == <<inner, last, hist, written>>

\* ------------------------------------------------------ results of calls
None    == [tag |-> "None"]
Panic   == [tag |-> "Panic"]
Unit    == [tag |-> "Unit"]
Some(x) == [tag |-> "Some", val |-> x]
\* Some(&mut ..): a reference into `inner`; what it points to is read from inner
SomeRef == [tag |-> "SomeRef"]

\* the orders in which the hash table may yield the keys of S
Orders(S) == {o \in [1..Cardinality(S) -> S] : \A i, j \in 1..Cardinality(S) : o[i] = o[j] => i = j}

RECURSIVE SumLen(_, _)
SumLen(m, S) == IF S = {} THEN 0
                ELSE LET k == CHOOSE x \in S : TRUE
                     IN  Len(m[k]) + SumLen(m, S \ {k})

\* number of values stored, over all keys
total == SumLen(inner, DOMAIN inner)

\* ------------------------------------------------- read-only operations
\* HashMap::contains_key
contains_key(k) == k \in DOMAIN inner

lenValues == SumLen(inner, DOMAIN inner)

\* HashMap::len : number of entries
len == Cardinality(DOMAIN inner)

is_empty == DOMAIN inner = {}

\* self.inner.get(k).map(|v| &v[0]) : v[0] panics on an empty Vec
get(k) == IF k \notin DOMAIN inner THEN None
          ELSE IF Len(inner[k]) = 0 THEN Panic
          ELSE Some(inner[k][1])

\* self.inner.get(k)
get_vec(k) == IF k \notin DOMAIN inner THEN None ELSE Some(inner[k])

\* self.inner.get(index).map(|v| &v[0]).expect("no entry found for key")
index(k) == IF k \notin DOMAIN inner THEN Panic
            ELSE IF Len(inner[k]) = 0 THEN Panic
            ELSE Some(inner[k][1])

\* a full traversal of iter() in hash order o : each next() maps (k, v) to (k, &v[0])
iter(o) == IF \E i \in 1..Len(o) : Len(inner[o[i]]) = 0 THEN Panic
           ELSE Some([i \in 1..Len(o) |-> <<o[i], inner[o[i]][1]>>])

\* a full traversal of iter_all() in hash order o
iter_all(o) == Some([i \in 1..Len(o) |-> <<o[i], inner[o[i]]>>])

RECURSIVE keysPerValue(_)
keysPerValue(o) ==
    IF o = <<>> THEN <<>>
    ELSE [i \in 1..Len(inner[Head(o)]) |-> Head(o)] \o keysPerValue(Tail(o))

\* a full traversal of keys() in hash order o : self.inner.keys()
keys(o) == o

\* the values capacity() may return: self.inner.capacity(), which HashMap keeps
\* at or above the number of entries and, for a map just made by
\* with_capacity, at or above the capacity it was made with
capacity ==
    {c \in 0..(MaxReserve + MaxKey) :
        /\ c >= len
        /\ last.op = "with_capacity" => c >= last.cap}

\* ------------------------------------------------------------------ Init
\* MultiMap::new()
Init ==
    /\ inner = [k \in {} |-> <<>>]
    /\ last = [op |-> "new", ret |-> Unit]
    /\ hist = [k \in Keys |-> <<>>]
    /\ written = {}

\* ------------------------------------------------------------- mutators
InsertPrepend(k, v) ==
    /\ total < MaxTotal
    /\ inner' = IF k \in DOMAIN inner
                THEN [inner EXCEPT ![k] = <<v>> \o @]
                ELSE [x \in DOMAIN inner \cup {k} |-> IF x = k THEN <<v>> ELSE inner[x]]
    /\ last' = [op |-> "insert", key |-> k, val |-> v, ret |-> Unit]
    /\ hist' = IF k \in written THEN hist ELSE [hist EXCEPT ![k] = Append(@, v)]
    /\ UNCHANGED written

InsertReplace(k, v) ==
    /\ total < MaxTotal
    /\ inner' = [x \in DOMAIN inner \cup {k} |-> IF x = k THEN <<v>> ELSE inner[x]]
    /\ last' = [op |-> "insert", key |-> k, val |-> v, ret |-> Unit]
    /\ hist' = IF k \in written THEN hist ELSE [hist EXCEPT ![k] = Append(@, v)]
    /\ UNCHANGED written

\* insert: push onto the key's Vec when the key is there, else a new one-element Vec
Insert(k, v) ==
    /\ total < MaxTotal
    /\ inner' = IF k \in DOMAIN inner
                THEN [inner EXCEPT ![k] = Append(@, v)]
                ELSE [x \in DOMAIN inner \cup {k} |-> IF x = k THEN <<v>> ELSE inner[x]]
    /\ last' = [op |-> "insert", key |-> k, val |-> v, ret |-> Unit]
    /\ hist' = IF k \in written THEN hist ELSE [hist EXCEPT ![k] = Append(@, v)]
    /\ UNCHANGED written

RemoveFirstOnly(k) ==
    IF k \in DOMAIN inner
    THEN /\ inner' = IF Len(inner[k]) <= 1
                     THEN [x \in DOMAIN inner \ {k} |-> inner[x]]
                     ELSE [inner EXCEPT ![k] = Tail(@)]
         /\ last' = [op |-> "remove", key |-> k, ret |-> Some(inner[k])]
         /\ hist' = [hist EXCEPT ![k] = <<>>]
         /\ written' = written \ {k}
    ELSE /\ last' = [op |-> "remove", key |-> k, ret |-> None]
         /\ UNCHANGED <<inner, hist, written>>

RemoveReturnsCopy(k) ==
    IF k \in DOMAIN inner
    THEN /\ last' = [op |-> "remove", key |-> k, ret |-> Some(inner[k])]
         /\ UNCHANGED <<inner, hist, written>>
    ELSE /\ last' = [op |-> "remove", key |-> k, ret |-> None]
         /\ UNCHANGED <<inner, hist, written>>

\* self.inner.remove(k)
Remove(k) ==
    IF k \in DOMAIN inner
    THEN /\ inner' = [x \in DOMAIN inner \ {k} |-> inner[x]]
         /\ last' = [op |-> "remove", key |-> k, ret |-> Some(inner[k])]
         /\ hist' = [hist EXCEPT ![k] = <<>>]
         /\ written' = written \ {k}
    ELSE /\ last' = [op |-> "remove", key |-> k, ret |-> None]
         /\ UNCHANGED <<inner, hist, written>>

ClearKeepsKeys ==
    /\ inner' = [x \in DOMAIN inner |-> <<>>]
    /\ last' = [op |-> "clear", ret |-> Unit, had |-> total]
    /\ hist' = [k \in Keys |-> <<>>]
    /\ written' = {}

\* self.inner.clear()
Clear ==
    /\ inner' = [k \in {} |-> <<>>]
    /\ last' = [op |-> "clear", ret |-> Unit, had |-> total]
    /\ hist' = [k \in Keys |-> <<>>]
    /\ written' = {}

\* ---------------------------------- mutable accessors and what callers do
\* what get_mut(k) returns: self.inner.get_mut(k).map(|v| v.get_mut(0).unwrap()),
\* the unwrap panicking on an empty Vec
get_mut(k) == IF k \notin DOMAIN inner THEN None
              ELSE IF Len(inner[k]) = 0 THEN Panic
              ELSE SomeRef

\* what get_vec_mut(k) returns: self.inner.get_mut(k)
get_vec_mut(k) == IF k \notin DOMAIN inner THEN None ELSE SomeRef

\* ghost bookkeeping of a caller's store through a mutable reference into k's list
Store(k) == /\ hist' = [hist EXCEPT ![k] = <<>>]
            /\ written' = written \cup {k}

\* what one Vec operation of a caller holding &mut Vec<V> can leave in place of l:
\* l[i] = v, push(v) (while the container holds fewer than MaxTotal values),
\* pop(), clear()
VecOps(l) ==
    {[l EXCEPT ![i] = v] : i \in 1..Len(l), v \in Values}
    \cup (IF total < MaxTotal THEN {Append(l, v) : v \in Values} ELSE {})
    \cup (IF Len(l) > 0 THEN {SubSeq(l, 1, Len(l) - 1)} ELSE {})
    \cup {<<>>}

GetMutLastIndex(k, v) ==
    /\ last' = [op |-> "get_mut", key |-> k, val |-> v, ret |-> get_mut(k)]
    /\ IF get_mut(k) = SomeRef
       THEN /\ inner' = [inner EXCEPT ![k][Len(inner[k])] = v]
            /\ Store(k)
       ELSE UNCHANGED <<inner, hist, written>>

\* get_mut(k), then `*r = v` by the caller when a reference came back
GetMut(k, v) ==
    /\ last' = [op |-> "get_mut", key |-> k, val |-> v, ret |-> get_mut(k)]
    /\ IF get_mut(k) = SomeRef
       THEN /\ inner' = [inner EXCEPT ![k][1] = v]
            /\ Store(k)
       ELSE UNCHANGED <<inner, hist, written>>

\* get_vec_mut(k), then one Vec operation by the caller on the &mut Vec<V>
\* that came back, leaving w
GetVecMut(k) ==
    /\ last' = [op |-> "get_vec_mut", key |-> k, ret |-> get_vec_mut(k)]
    /\ IF get_vec_mut(k) = SomeRef
       THEN /\ \E w \in VecOps(inner[k]) : inner' = [inner EXCEPT ![k] = w]
            /\ Store(k)
       ELSE UNCHANGED <<inner, hist, written>>

\* a full traversal of iter_mut(), the caller assigning f[k] through each
\* yielded reference; next() maps (k, v) to (k, &mut v[0]) and panics at the
\* first empty Vec it meets.  d is the set of keys yielded before that: every
\* key when no list is empty, else (the hash order being arbitrary) any set of
\* keys with non-empty lists
IterMut(d, f) ==
    LET bad == {k \in DOMAIN inner : Len(inner[k]) = 0}
    IN  /\ IF bad = {} THEN d = DOMAIN inner ELSE d \subseteq DOMAIN inner \ bad
        /\ inner' = [k \in DOMAIN inner |->
                        IF k \in d THEN [inner[k] EXCEPT ![1] = f[k]] ELSE inner[k]]
        /\ last' = [op |-> "iter_mut", ret |-> IF bad = {} THEN Unit ELSE Panic]
        /\ hist' = [k \in Keys |-> IF k \in d THEN <<>> ELSE hist[k]]
        /\ written' = written \cup d

\* a full traversal of iter_all_mut() in which the caller does one Vec
\* operation on the list yielded for key k and only reads the other lists
IterAllMut(k) ==
    /\ k \in DOMAIN inner
    /\ \E w \in VecOps(inner[k]) : inner' = [inner EXCEPT ![k] = w]
    /\ last' = [op |-> "iter_all_mut", key |-> k, ret |-> Unit]
    /\ Store(k)

\* ------------------------------------------------------------------ Next
Next ==
    \/ \E k \in Keys, v \in Values : Insert(k, v)
    \/ \E k \in Keys : Remove(k)
    \/ Clear
    \/ \E k \in Keys, v \in Values : GetMut(k, v)
    \/ \E k \in Keys : GetVecMut(k)
    \/ \E d \in SUBSET DOMAIN inner, f \in [DOMAIN inner -> Values] : IterMut(d, f)
    \/ \E k \in Keys : IterAllMut(k)

Spec == Init /\ [][Next]_vars

InitCapIgnored ==
    \E n \in 0..MaxReserve :
        /\ inner = [k \in {} |-> <<>>]
        /\ last = [op |-> "with_capacity", val |-> n, cap |-> 0, ret |-> Unit]
        /\ hist = [k \in Keys |-> <<>>]
        /\ written = {}

\* MultiMap::with_capacity(n) : HashMap::with_capacity(n)
InitCap ==
    \E n \in 0..MaxReserve :
        /\ inner = [k \in {} |-> <<>>]
        /\ last = [op |-> "with_capacity", val |-> n, cap |-> n, ret |-> Unit]
        /\ hist = [k \in Keys |-> <<>>]
        /\ written = {}

\* a container made by with_capacity, under the same operations
SpecCap == InitCap /\ [][Next]_vars

\* ------------------------------------------------ the iterators, stepwise
\* Iter and IterMut borrow the container, so it does not change while one of
\* them lives.  `last` then holds the iterator that iter() / iter_mut()
\* returned: rest, the keys its hash_map iterator has not reached yet; n, the
\* keys the container had; j, the next() calls that returned a pair; ret, what
\* the most recent next() returned.

\* Vec<V> values within the bounds
Vecs == UNION {[1..n -> Values] : n \in 0..MaxTotal}

\* the containers over the keys S holding at most budget values
RECURSIVE ContainersOver(_, _)
ContainersOver(S, budget) ==
    IF S = {} THEN {[k \in {} |-> <<>>]}
    ELSE LET k == CHOOSE x \in S : TRUE
         IN  UNION {{[x \in DOMAIN m \cup {k} |-> IF x = k THEN w ELSE m[x]] :
                        m \in ContainersOver(S \ {k}, budget - Len(w))} :
                    w \in {u \in Vecs : Len(u) <= budget}}

\* the containers a program can have built when it asks for an iterator
Containers == UNION {ContainersOver(S, MaxTotal) : S \in SUBSET Keys}

\* iter() / iter_mut() on such a container, every list of which its caller has
\* stored into
InitIter ==
    \E m \in Containers, kind \in {"Iter", "IterMut"} :
        /\ inner = m
        /\ hist = [k \in Keys |-> <<>>]
        /\ written = DOMAIN m
        /\ last = [op |-> kind, rest |-> DOMAIN m, n |-> Cardinality(DOMAIN m),
                   j |-> 0, ret |-> Unit]

iter_len_at_creation == last.n

\* ExactSizeIterator::len : self.inner.len(), what the hash_map iterator has left
iter_len == Cardinality(last.rest)

\* one next() of kind: self.inner.next().map(|(k, v)| (k, &v[0])), the hash_map
\* iterator moving on before v[0] is evaluated; a panic unwinds the caller's
\* frame and the iterator with it
NextOf(kind) ==
    /\ last.op = kind
    /\ last.ret # Panic
    /\ IF last.rest = {}
       THEN last' = [last EXCEPT !.ret = None]
       ELSE \E k \in last.rest :
              last' = IF Len(inner[k]) = 0
                      THEN [last EXCEPT !.rest = @ \ {k}, !.ret = Panic]
                      ELSE [last EXCEPT !.rest = @ \ {k}, !.j = @ + 1,
                                        !.ret = Some(<<k, inner[k][1]>>)]
    /\ UNCHANGED <<inner, hist, written>>

\* Iter::next
IterNext == NextOf("Iter")

\* IterMut::next, the caller only reading through the reference it gets
IterMutNext == NextOf("IterMut")

NextIter == IterNext \/ IterMutNext

SpecIter == InitIter /\ [][NextIter]_vars

\* ================================================================ claims

\* C1: for every key K, the values v1..vn inserted under K since K was last
\* absent (inserts under other keys interleaved, no remove(K) or clear() in
\* between, no store through a mutable reference) are what get_vec(K) returns,
\* in arrival order with duplicates kept, and get(K) returns v1.
C1_InsertOrder ==
    \A k \in Keys :
        (k \notin written /\ hist[k] # <<>>) =>
            /\ get_vec(k) = Some(hist[k])
            /\ get(k) = Some(hist[k][1])

C1_Witness ==
    \E k \in Keys :
        /\ k \notin written
        /\ Len(hist[k]) >= 2
        /\ hist[k][1] = hist[k][2]
        /\ last.op = "insert"
        /\ \E x \in DOMAIN inner : x # k

\* C2: in every reachable state every present key maps to a non-empty list.
C2_NonEmptyLists == \A k \in DOMAIN inner : Len(inner[k]) > 0

\* C3: get, get_mut, get_vec, get_vec_mut and contains_key never abort: each
\* returns a value when the key is present and the absent signal when it is not.
C3_LookupsTotal ==
    /\ \A k \in Keys :
          IF contains_key(k)
          THEN /\ get(k).tag = "Some"
               /\ get_mut(k) = SomeRef
               /\ get_vec(k).tag = "Some"
               /\ get_vec_mut(k) = SomeRef
          ELSE /\ get(k) = None
               /\ get_mut(k) = None
               /\ get_vec(k) = None
               /\ get_vec_mut(k) = None
    /\ last.op \in {"get_mut", "get_vec_mut"} => last.ret # Panic

\* C4: remove(K) on a present key returns K's full list in insertion order,
\* after which contains_key(K) is false and len() is one less; on an absent key
\* it returns the absent signal and leaves the container unchanged.
C4_Remove ==
    [][\A k \in Keys :
          (last'.op = "remove" /\ last'.key = k) =>
              IF contains_key(k)
              THEN /\ last'.ret = Some(inner[k])
                   /\ k \notin written => last'.ret = Some(hist[k])
                   /\ ~ contains_key(k)'
                   /\ len' = len - 1
              ELSE /\ last'.ret = None
                   /\ inner' = inner]_vars

C4_Witness ==
    /\ last.op = "remove"
    /\ last.ret.tag = "Some"
    /\ Len(last.ret.val) >= 2
    /\ last.ret.val[1] # last.ret.val[2]
    /\ ~ is_empty

\* C5: len() is the number of distinct keys, never the number of values:
\* insert(K, v) with K absent creates the list [v] and adds exactly 1 to len(),
\* insert(K, v) with K present leaves len() unchanged.
C5_LenCountsKeys ==
    [][\A k \in Keys, v \in Values :
          (last'.op = "insert" /\ last'.key = k /\ last'.val = v) =>
              /\ len' = Cardinality({x \in Keys : contains_key(x)'})
              /\ IF contains_key(k)
                 THEN len' = len
                 ELSE /\ get_vec(k)' = Some(<<v>>)
                      /\ len' = len + 1]_vars

C5_Witness ==
    /\ last.op = "insert"
    /\ len = 1
    /\ Len(inner[last.key]) >= 2

\* C6: the length of a key's list changes only through insert (grows by one)
\* or remove/clear (the key disappears): no holder of get_vec_mut(K) or of a
\* list yielded by iter_all_mut changes the number of values under K.
C6_LengthFrame ==
    [][\A k \in Keys :
          (contains_key(k) /\ contains_key(k)' /\ Len(inner'[k]) # Len(inner[k])) =>
              /\ last'.op = "insert"
              /\ last'.key = k
              /\ Len(inner'[k]) = Len(inner[k]) + 1]_vars

\* C7: container[K] aborts when K is absent; when K is present it returns,
\* without aborting, the value get(K) returns.
C7_Index ==
    \A k \in Keys :
        IF contains_key(k)
        THEN /\ index(k) # Panic
             /\ get(k) # Panic
             /\ index(k) = get(k)
             /\ index(k) = Some(inner[k][1])
        ELSE index(k) = Panic

\* C8: after clear(), whatever the prior contents, is_empty() is true,
\* len() is 0, and every key is absent for contains_key, get and get_vec.
C8_Clear ==
    last.op = "clear" =>
        /\ is_empty
        /\ len = 0
        /\ \A k \in Keys : /\ ~ contains_key(k)
                           /\ get(k) = None
                           /\ get_vec(k) = None

C8_Witness ==
    /\ last.op = "clear"
    /\ last.had >= 2

\* C9: a full traversal of iter() yields len() pairs, one (K, first value) per
\* present key; a full traversal of iter_all() yields len() pairs (K, list)
\* whose lengths sum to the values inserted minus those taken out by remove
\* and clear.  The sum is 0 after new(), so it is the claimed difference in
\* every state exactly when each call moves it by what that call inserts
\* minus what it takes out.
C9_Yields ==
    \A o \in Orders(DOMAIN inner) :
        /\ iter(o).tag = "Some"
        /\ Len(iter(o).val) = len
        /\ {iter(o).val[i] : i \in 1..len} = {<<k, inner[k][1]>> : k \in DOMAIN inner}
        /\ Len(iter_all(o).val) = len
        /\ {iter_all(o).val[i] : i \in 1..len} = {<<k, inner[k]>> : k \in DOMAIN inner}
        /\ SumLen([i \in 1..len |-> iter_all(o).val[i][2]], 1..len) = total

C9_Moved ==
    (IF last'.op = "insert" THEN 1 ELSE 0)
    - (IF last'.op = "remove" /\ last'.ret.tag = "Some" THEN Len(last'.ret.val) ELSE 0)
    - (IF last'.op = "clear" THEN last'.had ELSE 0)

C9_Traversals == [][C9_Yields' /\ total' = total + C9_Moved]_vars

\* C10: a write through the reference get_mut(K) returns changes index 0 of
\* K's list and nothing else: the key set, the length of K's list, its other
\* indices and every other list stay, and get(K), get_vec(K) show the new value.
C10_GetMutFrame ==
    [][\A k \in Keys, v \in Values :
          (last'.op = "get_mut" /\ last'.key = k /\ last'.val = v) =>
              IF last'.ret = SomeRef
              THEN /\ contains_key(k)
                   /\ DOMAIN inner' = DOMAIN inner
                   /\ Len(inner'[k]) = Len(inner[k])
                   /\ \A i \in 2..Len(inner[k]) : inner'[k][i] = inner[k][i]
                   /\ \A x \in DOMAIN inner \ {k} : inner'[x] = inner[x]
                   /\ get(k)' = Some(v)
                   /\ get_vec(k)'.val[1] = v
              ELSE inner' = inner]_vars

C10_Witness ==
    /\ last.op = "get_mut"
    /\ last.ret = SomeRef
    /\ len >= 2
    /\ Len(inner[last.key]) >= 2
    /\ inner[last.key][1] # inner[last.key][2]

C12_Keys ==
    \A o \in Orders(DOMAIN inner), again \in Orders(DOMAIN inner) :
        /\ Len(keys(o)) = len
        /\ {keys(o)[i] : i \in 1..Len(keys(o))} = {k \in Keys : contains_key(k)}
        /\ \A i, j \in 1..Len(keys(o)) : keys(o)[i] = keys(o)[j] => i = j
        /\ {keys(again)[i] : i \in 1..Len(keys(again))} = {keys(o)[i] : i \in 1..Len(keys(o))}

C12_Witness ==
    /\ len >= 2
    /\ \E k \in DOMAIN inner : Len(inner[k]) >= 2
    /\ \E k \in DOMAIN inner : Len(inner[k]) = 1

\* C13: a container made by with_capacity(n) reports capacity() >= n right
\* after creation, before any insert, and is otherwise as one made by new():
\* it is empty, every lookup is absent, and its state is the state new()
\* leaves, from which every later operation proceeds.
C13_WithCapacity ==
    last.op = "with_capacity" =>
        /\ capacity # {}
        /\ \A c \in capacity : c >= last.val
        /\ inner = [k \in {} |-> <<>>]
        /\ hist = [k \in Keys |-> <<>>]
        /\ written = {}
        /\ is_empty
        /\ len = 0
        /\ \A k \in Keys : /\ ~ contains_key(k)
                           /\ get(k) = None
                           /\ get_vec(k) = None
                           /\ get_mut(k) = None
                           /\ get_vec_mut(k) = None
                           /\ index(k) = Panic

C13_Witness ==
    /\ last.op = "with_capacity"
    /\ last.val >= 2
    /\ 2 \in capacity

\* C14: a full traversal of iter_mut() yields one pair per present key, with
\* mutable access to that key's first value only: the writes change index 0
\* of each list and leave the key set, every length and every index >= 1.
C14_IterMutFrame ==
    [][last'.op = "iter_mut" =>
          /\ last'.ret = Unit
          /\ DOMAIN inner' = DOMAIN inner
          /\ \A k \in DOMAIN inner :
                /\ k \in written'
                /\ Len(inner'[k]) = Len(inner[k])
                /\ \A i \in 2..Len(inner[k]) : inner'[k][i] = inner[k][i]]_vars

\* C15: the read-only views agree: is_empty() exactly when len() = 0, and for
\* every key contains_key exactly when get_vec is present, exactly when get
\* is present, get then being element 0 of get_vec.
C15_ViewsAgree ==
    /\ is_empty <=> len = 0
    /\ \A k \in Keys :
          /\ contains_key(k) <=> get_vec(k).tag = "Some"
          /\ contains_key(k) <=> get(k).tag = "Some"
          /\ contains_key(k) => get(k) = Some(get_vec(k).val[1])

\* C16: insert(K, v) affects only K: every other key keeps its presence and
\* its list, and K's earlier values keep their positions with v at the end.
C16_InsertFrame ==
    [][\A k \in Keys, v \in Values :
          (last'.op = "insert" /\ last'.key = k /\ last'.val = v) =>
              /\ \A x \in Keys \ {k} : /\ contains_key(x)' <=> contains_key(x)
                                       /\ get_vec(x)' = get_vec(x)
              /\ contains_key(k)'
              /\ get_vec(k)'.val =
                     (IF contains_key(k) THEN get_vec(k).val ELSE <<>>) \o <<v>>]_vars

C16_Witness ==
    /\ last.op = "insert"
    /\ Len(inner[last.key]) >= 2
    /\ inner[last.key][1] # inner[last.key][2]
    /\ \E x \in DOMAIN inner : x # last.key /\ Len(inner[x]) >= 1

\* C17: removal destroys a key's history: an insert(K, v) that follows
\* remove(K) or clear() makes K present again with get_vec(K) = [v] and
\* get(K) = v, nothing stored under K before reappearing, and adds 1 to len().
C17_FreshAfterRemoval ==
    [][\A k \in Keys, v \in Values :
          (/\ last.op = "clear" \/ (last.op = "remove" /\ last.key = k)
           /\ last'.op = "insert" /\ last'.key = k /\ last'.val = v) =>
              /\ contains_key(k)'
              /\ get_vec(k)' = Some(<<v>>)
              /\ get(k)' = Some(v)
              /\ len' = len + 1]_vars

C17_Witness ==
    /\ last.op = "remove"
    /\ total < MaxTotal
    /\ last.ret.tag = "Some"
    /\ Len(last.ret.val) >= 2
    /\ last.ret.val[1] = 1


====
